---- MODULE Spec2Model ----
(***************************************************************************)
(* Transaction execution and confirmation tracking of kribolista/S3:       *)
(* src/core/transaction.js (rotating candidate endpoints, authoritative    *)
(* re-validation) and src/core/vote.js (single provider).  The variable    *)
(* `module` fixes which of the two files a behaviour runs; every await of  *)
(* the code is a suspension point, and one action is the continuation that *)
(* runs when the awaited call settles.                                     *)
(***************************************************************************)
EXTENDS Integers, Sequences, FiniteSets, TLC

\* ---------------------------------------------------------------- bounds
NumWallets == 2      \* wallet indexes 0..NumWallets-1
NumHashes == 2       \* transaction hashes 1..NumHashes
MaxBatches == 2      \* executeTransactions calls in one behaviour
MaxOperations == 2   \* operations submitted in one behaviour
MaxBlock == 2        \* inclusion block numbers 1..MaxBlock (0: no block number)
MaxHead == 2         \* head heights 0..MaxHead answered by getBlockNumber
MaxGas == 2          \* gasUsed 1..MaxGas (0: field absent)
MaxPrice == 1        \* effectiveGasPrice 1..MaxPrice (0: field absent)
NumProviders == 2    \* length of publicProviders
ClockStep == 10000   \* granularity of Date.now(), in ms
MaxTime == 120000    \* last clock value, in ms
MaxCalls == 4        \* getNextPublicProvider calls of the rotator on its own

\* ------------------------------------------------------ program constants
\* MAX_RETRIES and REQUIRED_CONFIRMATIONS are imported from ../constants.
MAX_RETRIES == 3
REQUIRED_CONFIRMATIONS == 2
\* retryGetReceipt(provider, txHash, maxAttempts = 3)
DefaultMaxAttempts == 3
PROVIDER_SWITCH_INTERVAL == 30000

Wallets == 0 .. (NumWallets - 1)
Hashes == 1 .. NumHashes
Modules == {"transaction", "vote"}

Max(a, b) == IF a >= b THEN a ELSE b

\* ---------------------------------------------------------------- receipts
\* A receipt object; a field value 0 is the absent (undefined / null) field.
\* transactionHash 0 is the null receipt.  endpoint names the object the
\* receipt was fetched from: a rotating one of publicProviders ("public") or
\* the provider of services/ethereum ("provider").
Absent == 0
Null == [transactionHash |-> 0, blockNumber |-> Absent, gasUsed |-> Absent,
         effectiveGasPrice |-> Absent, status |-> 0, endpoint |-> "none"]

IsNull(r) == r.transactionHash = 0

\* What the rotating endpoints answer in transaction.js: the code reads only
\* blockNumber of the candidate receipt, so the other fields are left absent.
CandidateReceipts(h) ==
    [transactionHash : {h}, blockNumber : 0 .. MaxBlock, gasUsed : {Absent},
     effectiveGasPrice : {Absent}, status : {1}, endpoint : {"public"}]

\* What the authoritative provider answers in transaction.js: blockNumber of
\* the main receipt is never read there.
MainReceipts(h) ==
    [transactionHash : {h}, blockNumber : {1}, gasUsed : 0 .. MaxGas,
     effectiveGasPrice : 0 .. MaxPrice, status : {0, 1}, endpoint : {"provider"}]

\* What the provider answers in vote.js: status is never read there, and the
\* fee field a receipt lacks is effectiveGasPrice.
VoteReceipts(h) ==
    [transactionHash : {h}, blockNumber : 0 .. MaxBlock, gasUsed : 1 .. MaxGas,
     effectiveGasPrice : 0 .. MaxPrice, status : {1}, endpoint : {"provider"}]

\* An awaited endpoint call settles with an error or a value.
Answers(values) == [err : {FALSE}, val : values] \cup {[err |-> TRUE, val |-> Null]}
HeadAnswers == [err : {FALSE}, val : 0 .. MaxHead] \cup {[err |-> TRUE, val |-> 0]}

\* ------------------------------------------------------------- endpoints
\* How the endpoints answer.  mode "any": every call may fail or return any
\* receipt or head height.  mode "chain": a chain whose head grows by one
\* block per polling round, every call answers, transaction h is included in
\* block env.block[h] and every receipt is well formed; start is the head
\* at the call of waitForAllConfirmations.  mode "good": the same with a head
\* that stays where it is.
NoEnv == [mode |-> "any", head |-> 0, start |-> 0, block |-> [h \in Hashes |-> 0]]

VARIABLES
    module,              \* "transaction" | "vote": the file being run
    batch,               \* number of executeTransactions calls so far
    etPc,                \* position of executeTransactions
    ops,                 \* per wallet: the attempt loop of its operation
    transactions,        \* executeTransactions: const transactions = []
    handed,              \* the list waitForAllConfirmations was called with
    wfaPc,               \* position of waitForAllConfirmations
    confirmationStates,  \* Map hash -> {confirmations, walletIndex}
    confirmedReceipts,   \* list of {receipt, walletIndex}
    checks,              \* per slot and hash: a check callback in flight
    walletFees,          \* Map walletIndex -> cumulative fee
    currentProviderIndex,
    submitted,           \* operations handed to executeTransactions so far
    wfaTrace,            \* what the running waitForAllConfirmations did so far
    confirmedWallets,    \* wallets that ever had a receipt pushed to a result
    accounted,           \* fee updates made by the current batch
    now,                 \* Date.now()
    lastProviderChangeTime,
    returned,            \* indexes getNextPublicProvider returned so far
    env,                 \* how the endpoints answer
    otherBatch,          \* receipts a concurrent executeTransactions will account
    ledgerTotal          \* per wallet: the sum of all fees accounted so far

vars == <<module, batch, etPc, ops, transactions, handed, wfaPc,
          confirmationStates, confirmedReceipts, checks, walletFees,
          currentProviderIndex, submitted, wfaTrace, confirmedWallets,
          accounted, now, lastProviderChangeTime, returned, env, otherBatch,
          ledgerTotal>>

\* What the awaited calls of a check may settle with, by env.mode.
CandidateAnswers(h) ==
    IF env.mode = "any" THEN Answers({Null} \cup CandidateReceipts(h))
    ELSE {[err |-> FALSE, val |-> r] :
             r \in {c \in CandidateReceipts(h) : c.blockNumber = env.block[h]}}

MainAnswers(h) ==
    IF env.mode = "any" THEN Answers({Null} \cup MainReceipts(h))
    ELSE {[err |-> FALSE, val |-> r] :
             r \in {m \in MainReceipts(h) : m.gasUsed # Absent
                                             /\ m.effectiveGasPrice # Absent}}

VoteAnswers(h) ==
    IF env.mode = "any" THEN Answers({Null} \cup VoteReceipts(h))
    ELSE {[err |-> FALSE, val |-> r] :
             r \in {v \in VoteReceipts(h) : v.blockNumber = env.block[h]
                                             /\ v.effectiveGasPrice # Absent}}

BlockNumberAnswers ==
    IF env.mode = "any" THEN HeadAnswers ELSE {[err |-> FALSE, val |-> env.head]}

\* The chain at the call of waitForAllConfirmations and at the next round.
TrackerCalled(e) == IF e.mode = "chain" THEN [e EXCEPT !.start = e.head] ELSE e
NextRound(e) == IF e.mode = "chain" THEN [e EXCEPT !.head = @ + 1] ELSE e

\* ------------------------------------------------------- Endpoint Rotator
\* currentTime - lastProviderChangeTime > PROVIDER_SWITCH_INTERVAL
WindowElapsed(currentTime, lastChange) ==
    currentTime - lastChange > PROVIDER_SWITCH_INTERVAL

\* A faulty rotation that does not wrap around.
getNextPublicProviderNoWrap(index, elapsed) ==
    IF elapsed
    THEN [index |-> index + 1, elapsed |-> FALSE]
    ELSE [index |-> index, elapsed |-> elapsed]

\* getNextPublicProvider: the rotation state after one call.  `elapsed` is
\* the test currentTime - lastProviderChangeTime > PROVIDER_SWITCH_INTERVAL.
getNextPublicProvider(index, elapsed) ==
    IF elapsed
    THEN [index |-> (index + 1) % NumProviders, elapsed |-> FALSE]
    ELSE [index |-> index, elapsed |-> elapsed]

\* n calls made in one synchronous block (the map over the pending entries).
RECURSIVE RotateCalls(_, _, _)
RotateCalls(index, elapsed, n) ==
    IF n = 0 THEN [index |-> index, elapsed |-> elapsed]
    ELSE LET r == getNextPublicProvider(index, elapsed)
         IN RotateCalls(r.index, r.elapsed, n - 1)

\* -------------------------------------------------------- Receipt Fetcher
\* A faulty retryGetReceipt whose sleep is not guarded by attempt < maxAttempts.
retryGetReceiptStepSleepsLast(attempt, ans, maxAttempts) ==
    IF ~ans.err /\ ~IsNull(ans.val) THEN [next |-> "return", value |-> ans.val]
    ELSE [next |-> "sleep", value |-> Null]

\* retryGetReceipt: what the loop body does once the query of attempt
\* `attempt` has settled with `ans`: return the receipt, sleep before the
\* next attempt, or fall out of the loop and return null.
retryGetReceiptStep(attempt, ans, maxAttempts) ==
    IF ~ans.err /\ ~IsNull(ans.val) THEN [next |-> "return", value |-> ans.val]
    ELSE IF attempt < maxAttempts THEN [next |-> "sleep", value |-> Null]
    ELSE [next |-> "return", value |-> Null]

\* The for-loop test of retryGetReceipt after attempt++.
retryLoopTest(attempt, maxAttempts) == attempt <= maxAttempts

\* ---------------------------------------------------- Confirmation Tracker
\* new Map(transactions.map(...)): a later entry of the same hash wins.
MapFromTransactions(txs) ==
    [h \in {txs[i].hash : i \in DOMAIN txs} |->
        LET last == CHOOSE i \in DOMAIN txs :
                        /\ txs[i].hash = h
                        /\ \A j \in DOMAIN txs : txs[j].hash = h => j <= i
        IN [confirmations |-> 0, walletIndex |-> txs[last].walletIndex]]

\* confirmationStates.delete(txHash)
MapDelete(cs, h) == [k \in (DOMAIN cs) \ {h} |-> cs[k]]

\* A faulty loop test: confirmationStates.size >= 0.
LoopCondAlways(cs) == Cardinality(DOMAIN cs) >= 0

\* while (confirmationStates.size > 0)
LoopCond(cs) == DOMAIN cs # {}

\* A faulty count that leaves the inclusion block out.
ConfirmationsNoPlusOne(currentBlock, blockNumber) == Max(currentBlock - blockNumber, 0)

\* Math.max(currentBlock - receipt.blockNumber + 1, 0)
Confirmations(currentBlock, blockNumber) == Max(currentBlock - blockNumber + 1, 0)

\* A faulty depth test, one confirmation short.
DepthReachedOffByOne(confirmations, requiredConfirmations) ==
    confirmations + 1 >= requiredConfirmations

\* confirmations >= requiredConfirmations
DepthReached(confirmations, requiredConfirmations) ==
    confirmations >= requiredConfirmations

\* A faulty test that takes every receipt for one without a block number.
StillPendingAlways(receipt) == TRUE

\* !receipt || !receipt.blockNumber
StillPending(receipt) == IsNull(receipt) \/ receipt.blockNumber = Absent

\* mainReceipt && mainReceipt.gasUsed && mainReceipt.effectiveGasPrice
WellFormed(mainReceipt) ==
    /\ ~IsNull(mainReceipt)
    /\ mainReceipt.gasUsed # Absent
    /\ mainReceipt.effectiveGasPrice # Absent

\* A faulty push of the receipt the rotating endpoint returned.
EmittedReceiptCandidate(receipt, mainReceipt) == receipt

\* confirmedReceipts.push({ receipt: mainReceipt, walletIndex })
EmittedReceipt(receipt, mainReceipt) == mainReceipt

\* catch (blockError): the error is logged, the map is left as it is.
OnBlockError(cs, h) == cs

\* A faulty else branch that gives the transaction up.
OnInvalidReceiptDrop(cs, h) == [k \in (DOMAIN cs) \ {h} |-> cs[k]]

\* The else branch of the main receipt test: a warning is logged, the map is
\* left as it is.
OnInvalidReceipt(cs, h) == cs

\* A faulty outer catch that rethrows.
OnRoundErrorRethrow == "rejected"

\* The outer catch of the polling loop: log, sleep, loop again.
OnRoundError == "sleep"

\* A check callback.  pc: "idle" | "receipt" | "retrySleep" | "block" |
\* "mainReceipt" | "mainSleep" | "done".  queries and sleeps count the calls
\* and sleeps of the running retryGetReceipt, fetched is what the last one
\* returned; log is the branch the callback took.
IdleCheck ==
    [pc |-> "idle", attempt |-> 0, receipt |-> Null, currentBlock |-> 0,
     walletIndex |-> 0, publicProvider |-> 0, queries |-> 0, sleeps |-> 0,
     fetched |-> "none", log |-> "none"]

Slots == {"cur", "old"}
NoChecks == [s \in Slots |-> [h \in Hashes |-> IdleCheck]]
Running(c) == c.pc \notin {"idle", "done"}

\* The callback returns (or throws): its locals are dead.
Finish(c, fetched, log) ==
    [c EXCEPT !.pc = "done", !.attempt = 0, !.receipt = Null, !.currentBlock = 0,
              !.fetched = fetched, !.log = log]

\* The same in slot s: nothing waits for a callback of a rejected round.
Ended(s, c, fetched, log) == IF s = "old" THEN IdleCheck ELSE Finish(c, fetched, log)

\* What a call of waitForAllConfirmations did so far: endpoint calls made,
\* getNextPublicProvider called, sleep(5000) begun, an endpoint call failed.
NoTrace == [network |-> FALSE, rotator |-> FALSE, sleep |-> FALSE, error |-> FALSE]

\* -------------------------------------------------------------- Fee Ledger
\* A faulty read that does not see the fee stored before.
GetWalletFeeStale(fees, w) == 0

\* walletFees.get(walletIndex) || ethers.BigNumber.from(0)
GetWalletFee(fees, w) == IF w \in DOMAIN fees THEN fees[w] ELSE 0

\* receipt.gasUsed.mul(receipt.effectiveGasPrice)
ActualFee(receipt) == receipt.gasUsed * receipt.effectiveGasPrice

\* A faulty update that stores the fee instead of adding it.
SetFee(fees, w, fee) ==
    [k \in (DOMAIN fees) \cup {w} |-> IF k = w THEN fee ELSE fees[k]]

\* walletFees.set(walletIndex, currentWalletFee.add(actualFee))
AddFee(fees, w, fee) ==
    [k \in (DOMAIN fees) \cup {w} |->
        IF k = w THEN GetWalletFee(fees, w) + fee ELSE fees[k]]

\* transaction.js: receipt && receipt.gasUsed && receipt.effectiveGasPrice
FeeGuard(receipt) ==
    /\ ~IsNull(receipt)
    /\ receipt.gasUsed # Absent
    /\ receipt.effectiveGasPrice # Absent

\* vote.js: receipt.gasUsed.mul(receipt.effectiveGasPrice) on a receipt that
\* lacks one of the fields throws out of the forEach.
MulThrows(receipt) ==
    IsNull(receipt) \/ receipt.gasUsed = Absent \/ receipt.effectiveGasPrice = Absent

\* confirmedReceipts.forEach(...) from entry i on: the ledger, the updates
\* made, and whether the callback threw.
RECURSIVE forEachReceipt(_, _, _, _)
forEachReceipt(fees, log, list, i) ==
    IF i > Len(list) THEN [fees |-> fees, log |-> log, threw |-> FALSE]
    ELSE LET e == list[i]
             upd == [hash |-> e.receipt.transactionHash,
                     walletIndex |-> e.walletIndex, fee |-> ActualFee(e.receipt)]
         IN IF module = "transaction"
            THEN IF FeeGuard(e.receipt)
                 THEN forEachReceipt(AddFee(fees, e.walletIndex, ActualFee(e.receipt)),
                                     Append(log, upd), list, i + 1)
                 ELSE forEachReceipt(fees, log, list, i + 1)
            ELSE IF MulThrows(e.receipt)
                 THEN [fees |-> fees, log |-> log, threw |-> TRUE]
                 ELSE forEachReceipt(AddFee(fees, e.walletIndex, ActualFee(e.receipt)),
                                     Append(log, upd), list, i + 1)

\* The sum of the fees of the updates log[i..] made for wallet w.
RECURSIVE SumFees(_, _, _)
SumFees(log, w, i) ==
    IF i > Len(log) THEN 0
    ELSE (IF log[i].walletIndex = w THEN log[i].fee ELSE 0) + SumFees(log, w, i + 1)

\* ----------------------------------------------------- Submission Executor
\* A faulty exhaustion test that gives up one attempt early.
ExhaustedEarly(attempt) == attempt >= MAX_RETRIES - 1

\* if (attempt === MAX_RETRIES) throw
Exhausted(attempt) == attempt = MAX_RETRIES

\* A faulty throw that also ends the attempt loops of the other wallets.
OnExhaustedAbortsSiblings(os, w) ==
    [v \in DOMAIN os |->
        IF v = w \/ os[v].pc \in {"call", "sleep"}
        THEN [os[v] EXCEPT !.pc = "failed"] ELSE os[v]]

\* throw new Error(...) on the last attempt: the callback of wallet w ends,
\* the callbacks of the other wallets are left as they are.
OnExhausted(os, w) == [os EXCEPT ![w].pc = "failed"]

\* The for-loop test of the attempt loop after attempt++.
AttemptLoopTest(attempt) == attempt <= MAX_RETRIES

\* One wallet's attempt loop.  pc: "none" | "call" | "sleep" | "done" | "failed".
NoOp == [pc |-> "none", attempt |-> 0, calls |-> 0, sleeps |-> 0]

\* A faulty success branch without the break: operation() is called again.
DoneOpCallsAgain == [pc |-> "call", attempt |-> 1, calls |-> 1, sleeps |-> 0]

\* The callback returned after the break: its locals are dead.
DoneOp == [pc |-> "done", attempt |-> 0, calls |-> 0, sleeps |-> 0]

\* Every operation of a batch submits a transaction of its own: tx.hash is a
\* hash no earlier operation of the batch returned.
UsedHashes == {transactions[i].hash : i \in DOMAIN transactions}
FreshHash == CHOOSE h \in Hashes \ UsedHashes : \A k \in Hashes \ UsedHashes : h <= k

\* Nothing of the batch is in flight any more.
Quiescent ==
    /\ \A w \in Wallets : ops[w].pc \in {"none", "done", "failed"}
    /\ \A s \in Slots : \A h \in Hashes : ~Running(checks[s][h])

InitProgram ==
    /\ module \in Modules
    /\ batch = 0
    /\ etPc = "idle"
    /\ ops = [w \in Wallets |-> NoOp]
    /\ transactions = <<>>
    /\ handed = <<>>
    /\ wfaPc = "off"
    /\ confirmationStates = [h \in {} |-> 0]
    /\ confirmedReceipts = <<>>
    /\ checks = NoChecks
    /\ walletFees = [w \in {} |-> 0]
    /\ currentProviderIndex = 0
    /\ submitted = 0
    /\ wfaTrace = NoTrace
    /\ confirmedWallets = {}
    /\ accounted = <<>>
    /\ now = 0
    /\ lastProviderChangeTime = 0
    /\ returned = <<>>
    /\ ledgerTotal = [w \in Wallets |-> 0]

\* Arbitrary endpoints, no other executeTransactions in flight.
Init ==
    /\ InitProgram
    /\ env = NoEnv
    /\ otherBatch = <<>>

\* --------------------------------------------------------------- actions
\* executeTransactions(operations, description) is called: every attempt
\* loop runs up to its first await operation().
StartBatch ==
    /\ etPc \in {"idle", "returned", "rejected"}
    /\ Quiescent
    /\ batch < MaxBatches
    /\ \E operations \in SUBSET Wallets :
        /\ submitted + Cardinality(operations) <= MaxOperations
        /\ submitted' = submitted + Cardinality(operations)
        /\ ops' = [w \in Wallets |->
                      IF w \in operations
                      THEN [pc |-> "call", attempt |-> 1, calls |-> 1, sleeps |-> 0]
                      ELSE NoOp]
    /\ batch' = batch + 1
    /\ etPc' = "submit"
    /\ transactions' = <<>>
    /\ handed' = <<>>
    /\ wfaPc' = "off"
    /\ confirmationStates' = [h \in {} |-> 0]
    /\ confirmedReceipts' = <<>>
    /\ checks' = NoChecks
    /\ wfaTrace' = NoTrace
    /\ accounted' = <<>>
    /\ UNCHANGED <<now, lastProviderChangeTime, returned, env, otherBatch, ledgerTotal>>
    /\ UNCHANGED <<module, walletFees, currentProviderIndex, confirmedWallets>>

\* await operation() resolves with a transaction that has a hash: push, break.
OperationResolves(w) ==
    /\ ops[w].pc = "call"
    /\ Hashes \ UsedHashes # {}
    /\ transactions' = Append(transactions, [hash |-> FreshHash, walletIndex |-> w])
    /\ ops' = [ops EXCEPT ![w] = DoneOp]
    /\ UNCHANGED <<now, lastProviderChangeTime, returned, env, otherBatch, ledgerTotal>>
    /\ UNCHANGED <<module, batch, etPc, handed, wfaPc, confirmationStates,
                   confirmedReceipts, checks, walletFees, currentProviderIndex,
                   submitted, wfaTrace, confirmedWallets, accounted>>

\* await operation() rejects, or resolves with no transaction: the catch
\* block.  On the last attempt the callback throws and Promise.all rejects,
\* which rejects executeTransactions unless it was rejected before.
OperationFails(w) ==
    /\ ops[w].pc = "call"
    /\ IF Exhausted(ops[w].attempt)
       THEN /\ ops' = OnExhausted(ops, w)
            /\ etPc' = IF etPc = "submit" THEN "rejected" ELSE etPc
       ELSE /\ ops' = [ops EXCEPT ![w].pc = "sleep", ![w].sleeps = @ + 1]
            /\ etPc' = etPc
    /\ UNCHANGED <<now, lastProviderChangeTime, returned, env, otherBatch, ledgerTotal>>
    /\ UNCHANGED <<module, batch, transactions, handed, wfaPc, confirmationStates,
                   confirmedReceipts, checks, walletFees, currentProviderIndex,
                   submitted, wfaTrace, confirmedWallets, accounted>>

\* await sleep(RETRY_DELAY) resolves: attempt++, loop test, next operation().
RetryDelayElapsed(w) ==
    /\ ops[w].pc = "sleep"
    /\ ops' = [ops EXCEPT ![w] =
                 IF AttemptLoopTest(@.attempt + 1)
                 THEN [@ EXCEPT !.pc = "call", !.attempt = @ + 1, !.calls = @ + 1]
                 ELSE DoneOp]
    /\ UNCHANGED <<now, lastProviderChangeTime, returned, env, otherBatch, ledgerTotal>>
    /\ UNCHANGED <<module, batch, etPc, transactions, handed, wfaPc,
                   confirmationStates, confirmedReceipts, checks, walletFees,
                   currentProviderIndex, submitted, wfaTrace, confirmedWallets,
                   accounted>>

\* The head of the polling loop of waitForAllConfirmations on map cs: either
\* a round starts (every callback runs up to its first await) or the
\* function returns to executeTransactions.  `elapsed` is what Date.now()
\* makes of the switch-window test in the round's first rotator call.
StartedCheck(cs, h, provider) ==
    [IdleCheck EXCEPT !.pc = "receipt", !.attempt = 1, !.queries = 1,
                      !.walletIndex = cs[h].walletIndex,
                      !.publicProvider = provider]

WhileLoop(cs, elapsed) ==
    IF LoopCond(cs)
    THEN LET rot == IF module = "transaction"
                    THEN RotateCalls(currentProviderIndex, elapsed,
                                     Cardinality(DOMAIN cs))
                    ELSE [index |-> currentProviderIndex, elapsed |-> elapsed]
         IN /\ wfaPc' = "round"
            /\ etPc' = "confirm"
            /\ checks' = [checks EXCEPT !["cur"] =
                            [h \in Hashes |->
                                IF h \in DOMAIN cs
                                THEN StartedCheck(cs, h, rot.index)
                                ELSE IdleCheck]]
            /\ currentProviderIndex' = rot.index
            /\ wfaTrace' = [wfaTrace EXCEPT !.network = @ \/ DOMAIN cs # {},
                                            !.rotator = @ \/ (module = "transaction"
                                                              /\ DOMAIN cs # {})]
    ELSE /\ wfaPc' = "returned"
         /\ etPc' = "account"
         /\ checks' = [checks EXCEPT !["cur"] = [h \in Hashes |-> IdleCheck]]
         /\ UNCHANGED <<currentProviderIndex, wfaTrace>>

\* Promise.all over the attempt loops resolves: waitForAllConfirmations is
\* called with the transactions pushed so far.
CallWaitForAll ==
    /\ etPc = "submit"
    /\ \A w \in Wallets : ops[w].pc \in {"none", "done"}
    /\ handed' = transactions
    /\ confirmationStates' = MapFromTransactions(transactions)
    /\ confirmedReceipts' = <<>>
    /\ \E elapsed \in BOOLEAN : WhileLoop(MapFromTransactions(transactions), elapsed)
    /\ env' = TrackerCalled(env)
    /\ UNCHANGED <<now, lastProviderChangeTime, returned, otherBatch, ledgerTotal>>
    /\ UNCHANGED <<module, batch, ops, transactions, walletFees, submitted,
                   confirmedWallets, accounted>>

\* A check callback of slot s rejects with its record left as `c`.  A
\* rejection in the current round rejects the round's Promise.all at once:
\* the outer catch runs while the round's other callbacks are still in
\* flight (they continue in slot "old").  A rejection of a callback whose
\* round was rejected before has no effect.  CanReject bounds the model to
\* one rejected round whose callbacks are still in flight.
CanReject(s, h) ==
    (s = "cur" /\ \E h2 \in Hashes \ {h} : Running(checks["cur"][h2]))
        => \A h2 \in Hashes : ~Running(checks["old"][h2])

Reject(s, h, c) ==
    LET chk == [checks EXCEPT ![s][h] = c]
    IN IF s = "cur" /\ wfaPc = "round"
       THEN /\ checks' =
                 [t \in Slots |->
                    [h2 \in Hashes |->
                       IF t = "cur"
                       THEN IF Running(chk["cur"][h2]) THEN IdleCheck ELSE chk["cur"][h2]
                       ELSE IF Running(chk["cur"][h2]) THEN chk["cur"][h2]
                            ELSE chk["old"][h2]]]
            /\ wfaPc' = OnRoundError
            /\ etPc' = IF OnRoundError = "rejected" THEN "rejected" ELSE etPc
            /\ wfaTrace' = [wfaTrace EXCEPT !.sleep = @ \/ OnRoundError = "sleep",
                                            !.error = TRUE]
       ELSE /\ checks' = chk
            /\ wfaTrace' = [wfaTrace EXCEPT !.error = TRUE]
            /\ UNCHANGED <<wfaPc, etPc>>

\* transaction.js, after retryGetReceipt(publicProvider, txHash) returned.
AfterCandidate(s, c, value) ==
    IF StillPending(value)
    THEN Ended(s, c, IF IsNull(value) THEN "null" ELSE "receipt", "Pending")
    ELSE [c EXCEPT !.pc = "block", !.attempt = 0, !.receipt = value,
                   !.fetched = "receipt"]

\* transaction.js: the candidate endpoint's getTransactionReceipt settles.
CandidateReceiptSettles(s, h) ==
    /\ module = "transaction"
    /\ checks[s][h].pc = "receipt"
    /\ \E ans \in CandidateAnswers(h) :
        LET c == checks[s][h]
            step == retryGetReceiptStep(c.attempt, ans, DefaultMaxAttempts)
        IN IF step.next = "throw"
           THEN CanReject(s, h) /\ Reject(s, h, Ended(s, c, "threw", "Threw"))
           ELSE /\ checks' = [checks EXCEPT ![s][h] =
                                IF step.next = "sleep"
                                THEN [c EXCEPT !.pc = "retrySleep", !.sleeps = @ + 1]
                                ELSE AfterCandidate(s, c, step.value)]
                /\ wfaTrace' = [wfaTrace EXCEPT !.error = @ \/ ans.err]
                /\ UNCHANGED <<wfaPc, etPc>>
    /\ UNCHANGED <<now, lastProviderChangeTime, returned, env, otherBatch, ledgerTotal>>
    /\ UNCHANGED <<module, batch, ops, transactions, handed, confirmationStates,
                   confirmedReceipts, walletFees, currentProviderIndex,
                   submitted, confirmedWallets, accounted>>

\* transaction.js: sleep(2000) inside the candidate retryGetReceipt resolves.
CandidateRetrySleepElapsed(s, h) ==
    /\ checks[s][h].pc = "retrySleep"
    /\ LET c == checks[s][h]
       IN checks' = [checks EXCEPT ![s][h] =
                       IF retryLoopTest(c.attempt + 1, DefaultMaxAttempts)
                       THEN [c EXCEPT !.pc = "receipt", !.attempt = @ + 1,
                                      !.queries = @ + 1]
                       ELSE AfterCandidate(s, [c EXCEPT !.attempt = @ + 1], Null)]
    /\ UNCHANGED <<now, lastProviderChangeTime, returned, env, otherBatch, ledgerTotal>>
    /\ UNCHANGED <<module, batch, etPc, ops, transactions, handed, wfaPc,
                   confirmationStates, confirmedReceipts, walletFees,
                   currentProviderIndex, submitted, wfaTrace, confirmedWallets,
                   accounted>>

\* transaction.js: publicProvider.getBlockNumber() settles.
BlockNumberSettles(s, h) ==
    /\ module = "transaction"
    /\ checks[s][h].pc = "block"
    /\ \E ans \in BlockNumberAnswers :
        /\ LET c == checks[s][h]
           IN IF ans.err
              THEN /\ checks' = [checks EXCEPT ![s][h] = Ended(s, c, c.fetched, "BlockError")]
                   /\ confirmationStates' = OnBlockError(confirmationStates, h)
              ELSE /\ checks' = [checks EXCEPT ![s][h] =
                       IF DepthReached(Confirmations(ans.val, c.receipt.blockNumber),
                                       REQUIRED_CONFIRMATIONS)
                       THEN [c EXCEPT !.pc = "mainReceipt", !.currentBlock = ans.val,
                                      !.attempt = 1, !.queries = 1, !.sleeps = 0,
                                      !.fetched = "none"]
                       ELSE Ended(s, c, c.fetched, "Blocks")]
                   /\ UNCHANGED confirmationStates
        /\ wfaTrace' = [wfaTrace EXCEPT !.error = @ \/ ans.err]
    /\ UNCHANGED <<now, lastProviderChangeTime, returned, env, otherBatch, ledgerTotal>>
    /\ UNCHANGED <<module, batch, etPc, ops, transactions, handed, wfaPc,
                   confirmedReceipts, walletFees, currentProviderIndex,
                   submitted, confirmedWallets, accounted>>

\* transaction.js, after retryGetReceipt(provider, txHash) returned: the
\* transaction is removed and emitted, or left pending with a warning.
AfterMain(s, h, c, mainReceipt) ==
    IF WellFormed(mainReceipt)
    THEN /\ confirmationStates' = MapDelete(confirmationStates, h)
         /\ confirmedReceipts' = Append(confirmedReceipts,
                [receipt |-> EmittedReceipt(c.receipt, mainReceipt),
                 walletIndex |-> c.walletIndex])
         /\ confirmedWallets' = confirmedWallets \cup {c.walletIndex}
         /\ checks' = [checks EXCEPT ![s][h] = Ended(s, c, "receipt", "Confirmed")]
    ELSE /\ checks' = [checks EXCEPT ![s][h] =
                         Ended(s, c, IF IsNull(mainReceipt) THEN "null" ELSE "receipt",
                                "Invalid")]
         /\ confirmationStates' = OnInvalidReceipt(confirmationStates, h)
         /\ UNCHANGED <<confirmedReceipts, confirmedWallets>>

\* transaction.js: the authoritative provider's getTransactionReceipt settles.
MainReceiptSettles(s, h) ==
    /\ checks[s][h].pc = "mainReceipt"
    /\ \E ans \in MainAnswers(h) :
        /\ LET c == checks[s][h]
               step == retryGetReceiptStep(c.attempt, ans, DefaultMaxAttempts)
           IN IF step.next = "sleep"
              THEN /\ checks' = [checks EXCEPT ![s][h] =
                                   [c EXCEPT !.pc = "mainSleep", !.sleeps = @ + 1]]
                   /\ UNCHANGED <<confirmationStates, confirmedReceipts, confirmedWallets>>
              ELSE IF step.next = "throw"
              THEN /\ checks' = [checks EXCEPT ![s][h] = Ended(s, c, "threw", "BlockError")]
                   /\ confirmationStates' = OnBlockError(confirmationStates, h)
                   /\ UNCHANGED <<confirmedReceipts, confirmedWallets>>
              ELSE AfterMain(s, h, c, step.value)
        /\ wfaTrace' = [wfaTrace EXCEPT !.error = @ \/ ans.err]
    /\ UNCHANGED <<now, lastProviderChangeTime, returned, env, otherBatch, ledgerTotal>>
    /\ UNCHANGED <<module, batch, etPc, ops, transactions, handed, wfaPc,
                   walletFees, currentProviderIndex, submitted, accounted>>

\* transaction.js: sleep(2000) inside the authoritative retryGetReceipt resolves.
MainRetrySleepElapsed(s, h) ==
    /\ checks[s][h].pc = "mainSleep"
    /\ LET c == checks[s][h]
       IN IF retryLoopTest(c.attempt + 1, DefaultMaxAttempts)
          THEN /\ checks' = [checks EXCEPT ![s][h] =
                               [c EXCEPT !.pc = "mainReceipt", !.attempt = @ + 1,
                                         !.queries = @ + 1]]
               /\ UNCHANGED <<confirmationStates, confirmedReceipts, confirmedWallets>>
          ELSE AfterMain(s, h, [c EXCEPT !.attempt = @ + 1], Null)
    /\ UNCHANGED <<now, lastProviderChangeTime, returned, env, otherBatch, ledgerTotal>>
    /\ UNCHANGED <<module, batch, etPc, ops, transactions, handed, wfaPc,
                   walletFees, currentProviderIndex, submitted, wfaTrace,
                   accounted>>

\* vote.js: provider.getTransactionReceipt(txHash) settles; an error is not
\* caught in the callback.
VoteReceiptSettles(s, h) ==
    /\ module = "vote"
    /\ checks[s][h].pc = "receipt"
    /\ \E ans \in VoteAnswers(h) :
        LET c == checks[s][h]
        IN IF ans.err
           THEN CanReject(s, h) /\ Reject(s, h, Ended(s, c, "none", "Threw"))
           ELSE /\ checks' = [checks EXCEPT ![s][h] =
                    IF StillPending(ans.val)
                    THEN Ended(s, c, "none", "Pending")
                    ELSE [c EXCEPT !.pc = "block", !.attempt = 0, !.receipt = ans.val]]
                /\ UNCHANGED <<wfaPc, etPc, wfaTrace>>
    /\ UNCHANGED <<now, lastProviderChangeTime, returned, env, otherBatch, ledgerTotal>>
    /\ UNCHANGED <<module, batch, ops, transactions, handed, confirmationStates,
                   confirmedReceipts, walletFees, currentProviderIndex,
                   submitted, confirmedWallets, accounted>>

\* vote.js: provider.getBlockNumber() settles; at the required depth the
\* transaction is removed and its receipt emitted.
VoteBlockNumberSettles(s, h) ==
    /\ module = "vote"
    /\ checks[s][h].pc = "block"
    /\ \E ans \in BlockNumberAnswers :
        LET c == checks[s][h]
        IN IF ans.err
           THEN /\ CanReject(s, h)
                /\ Reject(s, h, Ended(s, c, "none", "Threw"))
                /\ UNCHANGED <<confirmationStates, confirmedReceipts, confirmedWallets>>
           ELSE IF DepthReached(Confirmations(ans.val, c.receipt.blockNumber),
                                REQUIRED_CONFIRMATIONS)
           THEN /\ confirmationStates' = MapDelete(confirmationStates, h)
                /\ confirmedReceipts' = Append(confirmedReceipts,
                       [receipt |-> c.receipt, walletIndex |-> c.walletIndex])
                /\ confirmedWallets' = confirmedWallets \cup {c.walletIndex}
                /\ checks' = [checks EXCEPT ![s][h] = Ended(s, c, "none", "Confirmed")]
                /\ UNCHANGED <<wfaPc, etPc, wfaTrace>>
           ELSE /\ checks' = [checks EXCEPT ![s][h] = Ended(s, c, "none", "Blocks")]
                /\ UNCHANGED <<confirmationStates, confirmedReceipts, confirmedWallets,
                               wfaPc, etPc, wfaTrace>>
    /\ UNCHANGED <<now, lastProviderChangeTime, returned, env, otherBatch, ledgerTotal>>
    /\ UNCHANGED <<module, batch, ops, transactions, handed, walletFees,
                   currentProviderIndex, submitted, accounted>>

\* The round's Promise.all resolves: every callback of the round returned.
\* if (confirmationStates.size > 0) await sleep(5000), else the loop test.
RoundComplete ==
    /\ wfaPc = "round"
    /\ \A h \in Hashes : ~Running(checks["cur"][h])
    /\ IF DOMAIN confirmationStates # {}
       THEN /\ wfaPc' = "sleep"
            /\ wfaTrace' = [wfaTrace EXCEPT !.sleep = TRUE]
            /\ checks' = [checks EXCEPT !["cur"] = [h \in Hashes |-> IdleCheck]]
            /\ UNCHANGED <<etPc, currentProviderIndex>>
       ELSE \E elapsed \in BOOLEAN : WhileLoop(confirmationStates, elapsed)
    /\ UNCHANGED <<now, lastProviderChangeTime, returned, env, otherBatch, ledgerTotal>>
    /\ UNCHANGED <<module, batch, ops, transactions, handed, confirmationStates,
                   confirmedReceipts, walletFees, submitted, confirmedWallets,
                   accounted>>

\* await sleep(5000) resolves (after a round or in the outer catch).
RoundSleepElapsed ==
    /\ wfaPc = "sleep"
    /\ \E elapsed \in BOOLEAN : WhileLoop(confirmationStates, elapsed)
    /\ env' = NextRound(env)
    /\ UNCHANGED <<now, lastProviderChangeTime, returned, otherBatch, ledgerTotal>>
    /\ UNCHANGED <<module, batch, ops, transactions, handed, confirmationStates,
                   confirmedReceipts, walletFees, submitted, confirmedWallets,
                   accounted>>

\* await waitForAllConfirmations(...) resolves: confirmedReceipts.forEach.
AccountFees ==
    /\ etPc = "account"
    /\ LET r == forEachReceipt(walletFees, <<>>, confirmedReceipts, 1)
       IN /\ walletFees' = r.fees
          /\ accounted' = r.log
          /\ ledgerTotal' = [w \in Wallets |-> ledgerTotal[w] + SumFees(r.log, w, 1)]
          /\ etPc' = IF r.threw THEN "rejected" ELSE "returned"
    /\ UNCHANGED <<now, lastProviderChangeTime, returned, env, otherBatch>>
    /\ UNCHANGED <<module, batch, ops, transactions, handed, wfaPc,
                   confirmationStates, confirmedReceipts, checks,
                   currentProviderIndex, submitted, wfaTrace, confirmedWallets>>

Next ==
    \/ StartBatch
    \/ \E w \in Wallets : OperationResolves(w)
    \/ \E w \in Wallets : OperationFails(w)
    \/ \E w \in Wallets : RetryDelayElapsed(w)
    \/ CallWaitForAll
    \/ \E s \in Slots, h \in Hashes : CandidateReceiptSettles(s, h)
    \/ \E s \in Slots, h \in Hashes : CandidateRetrySleepElapsed(s, h)
    \/ \E s \in Slots, h \in Hashes : BlockNumberSettles(s, h)
    \/ \E s \in Slots, h \in Hashes : MainReceiptSettles(s, h)
    \/ \E s \in Slots, h \in Hashes : MainRetrySleepElapsed(s, h)
    \/ \E s \in Slots, h \in Hashes : VoteReceiptSettles(s, h)
    \/ \E s \in Slots, h \in Hashes : VoteBlockNumberSettles(s, h)
    \/ RoundComplete
    \/ RoundSleepElapsed
    \/ AccountFees

Spec == Init /\ [][Next]_vars

\* ------------------------------------------- a second executeTransactions
\* Another call of executeTransactions is in flight: its tracker has
\* returned otherBatch, and its forEach runs, as one synchronous block,
\* between any two continuations of the batch modelled above.
OtherBatches ==
    {<<[receipt |-> [transactionHash |-> NumHashes, blockNumber |-> 1,
                     gasUsed |-> MaxGas, effectiveGasPrice |-> MaxPrice,
                     status |-> 1, endpoint |-> "provider"],
        walletIndex |-> w]>> : w \in Wallets}

ConcurrentAccountFees ==
    /\ otherBatch # <<>>
    /\ LET r == forEachReceipt(walletFees, <<>>, otherBatch, 1)
       IN /\ walletFees' = r.fees
          /\ ledgerTotal' = [w \in Wallets |-> ledgerTotal[w] + SumFees(r.log, w, 1)]
    /\ confirmedWallets' =
          confirmedWallets \cup {otherBatch[i].walletIndex : i \in DOMAIN otherBatch}
    /\ otherBatch' = <<>>
    /\ UNCHANGED <<now, lastProviderChangeTime, returned, env>>
    /\ UNCHANGED <<module, batch, etPc, ops, transactions, handed, wfaPc,
                   confirmationStates, confirmedReceipts, checks,
                   currentProviderIndex, submitted, wfaTrace, accounted>>

InitLedger ==
    /\ InitProgram
    /\ env = NoEnv
    /\ otherBatch \in OtherBatches

NextLedger == Next \/ ConcurrentAccountFees

SpecLedger == InitLedger /\ [][NextLedger]_vars

\* ------------------------------------------------- endpoints that recover
\* From some moment on every endpoint call answers: the candidate endpoints
\* with a receipt that has a block number and with a head height giving the
\* required depth, the provider with a well-formed receipt.
GoodEnv ==
    [mode |-> "good", head |-> REQUIRED_CONFIRMATIONS, start |-> 0,
     block |-> [h \in Hashes |-> 1]]

EndpointsRecover ==
    /\ env.mode = "any"
    /\ env' = GoodEnv
    /\ UNCHANGED <<now, lastProviderChangeTime, returned, otherBatch, ledgerTotal>>
    /\ UNCHANGED <<module, batch, etPc, ops, transactions, handed, wfaPc,
                   confirmationStates, confirmedReceipts, checks, walletFees,
                   currentProviderIndex, submitted, wfaTrace, confirmedWallets,
                   accounted>>

\* One call of executeTransactions and what follows from it.
FirstBatch == batch = 0 /\ StartBatch

ProgramLive ==
    \/ FirstBatch
    \/ \E w \in Wallets : OperationResolves(w)
    \/ \E w \in Wallets : OperationFails(w)
    \/ \E w \in Wallets : RetryDelayElapsed(w)
    \/ CallWaitForAll
    \/ \E s \in Slots, h \in Hashes : CandidateReceiptSettles(s, h)
    \/ \E s \in Slots, h \in Hashes : CandidateRetrySleepElapsed(s, h)
    \/ \E s \in Slots, h \in Hashes : BlockNumberSettles(s, h)
    \/ \E s \in Slots, h \in Hashes : MainReceiptSettles(s, h)
    \/ \E s \in Slots, h \in Hashes : MainRetrySleepElapsed(s, h)
    \/ \E s \in Slots, h \in Hashes : VoteReceiptSettles(s, h)
    \/ \E s \in Slots, h \in Hashes : VoteBlockNumberSettles(s, h)
    \/ RoundComplete
    \/ RoundSleepElapsed
    \/ AccountFees

NextLive == ProgramLive \/ EndpointsRecover

\* Every awaited call settles and every timer fires; the endpoints recover.
SpecLive ==
    /\ Init
    /\ [][NextLive]_vars
    /\ WF_vars(ProgramLive)
    /\ WF_vars(EndpointsRecover)

\* ------------------------------------------------- the rotator on its own
\* getNextPublicProvider called at arbitrary times of a clock.
Tick ==
    /\ now + ClockStep <= MaxTime
    /\ now' = now + ClockStep
    /\ UNCHANGED <<lastProviderChangeTime, returned, currentProviderIndex>>
    /\ UNCHANGED <<module, batch, etPc, ops, transactions, handed, wfaPc,
                   confirmationStates, confirmedReceipts, checks, walletFees,
                   submitted, wfaTrace, confirmedWallets, accounted, env,
                   otherBatch, ledgerTotal>>

CallGetNextPublicProvider ==
    /\ Len(returned) < MaxCalls
    /\ LET elapsed == WindowElapsed(now, lastProviderChangeTime)
           r == getNextPublicProvider(currentProviderIndex, elapsed)
       IN /\ currentProviderIndex' = r.index
          /\ lastProviderChangeTime' = IF elapsed THEN now ELSE lastProviderChangeTime
          /\ returned' = Append(returned, r.index)
    /\ UNCHANGED now
    /\ UNCHANGED <<module, batch, etPc, ops, transactions, handed, wfaPc,
                   confirmationStates, confirmedReceipts, checks, walletFees,
                   submitted, wfaTrace, confirmedWallets, accounted, env,
                   otherBatch, ledgerTotal>>

InitRotator == Init /\ module = "transaction"

NextRotator == Tick \/ CallGetNextPublicProvider

SpecRotator == InitRotator /\ [][NextRotator]_vars

\* ------------------------------------------------------------ mock chain
\* The tracker against a chain whose head grows by one block per round and
\* whose endpoints always answer: no retryGetReceipt call sleeps.
ChainEnvs ==
    [mode : {"chain"}, head : 0 .. MaxBlock, start : {0},
     block : [Hashes -> 1 .. MaxBlock]]

InitChain ==
    /\ InitProgram
    /\ env \in ChainEnvs
    /\ otherBatch = <<>>

NextChain ==
    \/ StartBatch
    \/ \E w \in Wallets : OperationResolves(w)
    \/ \E w \in Wallets : OperationFails(w)
    \/ \E w \in Wallets : RetryDelayElapsed(w)
    \/ CallWaitForAll
    \/ \E s \in Slots, h \in Hashes : CandidateReceiptSettles(s, h)
    \/ \E s \in Slots, h \in Hashes : BlockNumberSettles(s, h)
    \/ \E s \in Slots, h \in Hashes : MainReceiptSettles(s, h)
    \/ \E s \in Slots, h \in Hashes : VoteReceiptSettles(s, h)
    \/ \E s \in Slots, h \in Hashes : VoteBlockNumberSettles(s, h)
    \/ RoundComplete
    \/ RoundSleepElapsed
    \/ AccountFees

SpecChain == InitChain /\ [][NextChain]_vars

\* ------------------------------------------------------------------ claims
HashesOf(list) == {list[i].hash : i \in DOMAIN list}
EntriesFor(h) ==
    {i \in DOMAIN confirmedReceipts : confirmedReceipts[i].receipt.transactionHash = h}
AllChecks == {checks[s][h] : s \in Slots, h \in Hashes}

\* C1: in transaction.js a transaction is pushed to the result only by a
\* check that holds a candidate receipt with a block number and a head height
\* giving at least REQUIRED_CONFIRMATIONS confirmations, and the receipt
\* pushed is the one then fetched from the authoritative provider, with both
\* gasUsed and effectiveGasPrice.
C1_Push ==
    (module = "transaction" /\ batch' = batch /\ confirmedReceipts' # confirmedReceipts)
        => \E s \in Slots, h \in Hashes :
              LET c == checks[s][h]
                  e == confirmedReceipts'[Len(confirmedReceipts')]
              IN /\ c.pc = "mainReceipt"
                 /\ c.receipt.transactionHash = h
                 /\ c.receipt.blockNumber # Absent
                 /\ Max(c.currentBlock - c.receipt.blockNumber + 1, 0)
                        >= REQUIRED_CONFIRMATIONS
                 /\ confirmedReceipts' = Append(confirmedReceipts, e)
                 /\ e.receipt.transactionHash = h
                 /\ e.receipt.gasUsed # Absent
                 /\ e.receipt.effectiveGasPrice # Absent
                 /\ e.walletIndex = c.walletIndex
                 /\ checks'[s][h].pc = "done"
C1_ConfirmedOnlyAfterDepthAndMainReceipt == [][C1_Push]_vars

\* C1 witness: transaction.js returned two confirmed transactions although
\* some endpoint call had failed on the way.
C1_Witness ==
    /\ module = "transaction"
    /\ wfaPc = "returned"
    /\ Len(confirmedReceipts) = 2
    /\ wfaTrace.error

\* C2: once every attempt loop of a batch has ended, every transaction that
\* an operation() call returned has been handed to waitForAllConfirmations.
C2_EverySubmittedIsHanded ==
    (etPc # "submit" /\ \A w \in Wallets : ops[w].pc \in {"none", "done", "failed"})
        => \A i \in DOMAIN transactions :
              /\ wfaPc # "off"
              /\ \E j \in DOMAIN handed : handed[j] = transactions[i]

\* C3: no transaction hash appears twice in the list of confirmed receipts,
\* no hash is accounted twice, and a batch that returned has accounted every
\* transaction it handed to the tracker exactly once.
C3_AccountedExactlyOnce ==
    /\ \A h \in Hashes : Cardinality(EntriesFor(h)) <= 1
    /\ \A i, j \in DOMAIN accounted : i # j => accounted[i].hash # accounted[j].hash
    /\ etPc = "returned" =>
          \A h \in HashesOf(handed) :
              Cardinality({i \in DOMAIN accounted : accounted[i].hash = h}) = 1

\* C4: no step lowers or removes a wallet's walletFees entry, and the value
\* read for a wallet that never had a confirmed receipt is zero.
C4_Fee(fees, w) == IF w \in DOMAIN fees THEN fees[w] ELSE 0
C4_Step ==
    /\ DOMAIN walletFees \subseteq DOMAIN walletFees'
    /\ \A w \in Wallets : C4_Fee(walletFees', w) >= C4_Fee(walletFees, w)
C4_LedgerMonotone ==
    /\ [](\A w \in Wallets \ confirmedWallets : C4_Fee(walletFees, w) = 0)
    /\ [][C4_Step]_vars

\* C4 witness: a fee was added to an entry that already held an earlier fee.
C4_Witness ==
    /\ module = "transaction"
    /\ batch = 2
    /\ \E i \in DOMAIN accounted :
          accounted[i].fee < C4_Fee(walletFees, accounted[i].walletIndex)

\* C5: a fee is added only for a receipt that is present, has success status
\* and has both fee fields, the fee being gasUsed * effectiveGasPrice; any
\* other receipt leaves the ledger alone and does not make the batch fail.
C5_FeeOnlyForGoodReceipts ==
    /\ \A i \in DOMAIN accounted :
          \E k \in DOMAIN confirmedReceipts :
              LET r == confirmedReceipts[k].receipt
              IN /\ r.transactionHash = accounted[i].hash
                 /\ confirmedReceipts[k].walletIndex = accounted[i].walletIndex
                 /\ r.status = 1
                 /\ r.gasUsed # Absent
                 /\ r.effectiveGasPrice # Absent
                 /\ accounted[i].fee = r.gasUsed * r.effectiveGasPrice
    /\ ~(wfaPc = "returned" /\ etPc = "rejected")

\* C6: an operation that failed was invoked exactly MAX_RETRIES times with
\* MAX_RETRIES - 1 delays; an attempt is in flight only after the delay that
\* follows the previous attempt, and a delay only after a failed attempt
\* that was not the last one.
C6_RetriesExactlyMaxRetries ==
    \A w \in Wallets :
        LET o == ops[w]
        IN /\ o.calls <= MAX_RETRIES
           /\ o.pc = "failed" => o.calls = MAX_RETRIES /\ o.sleeps = MAX_RETRIES - 1
           /\ o.pc = "call" => o.calls = o.attempt /\ o.sleeps = o.calls - 1
           /\ o.pc = "sleep" => o.calls = o.attempt /\ o.sleeps = o.calls
                                  /\ o.calls < MAX_RETRIES

\* C6 witness: a wallet's operation has failed for good.
C6_Witness == \E w \in Wallets : ops[w].pc = "failed"

\* C7: retryGetReceipt never throws, queries at most maxAttempts times,
\* returns null only after exactly maxAttempts queries and maxAttempts - 1
\* sleeps, returns a receipt right after the query that produced it, and
\* never sleeps after the last attempt.
C7_RetryGetReceiptBounded ==
    module = "transaction" =>
        \A c \in AllChecks :
            /\ c.fetched # "threw"
            /\ c.queries <= DefaultMaxAttempts
            /\ c.pc \in {"receipt", "mainReceipt"} =>
                  c.queries = c.attempt /\ c.sleeps = c.queries - 1
            /\ c.pc \in {"retrySleep", "mainSleep"} =>
                  /\ c.queries = c.attempt
                  /\ c.sleeps = c.queries
                  /\ c.queries < DefaultMaxAttempts
            /\ c.fetched = "null" =>
                  c.queries = DefaultMaxAttempts /\ c.sleeps = DefaultMaxAttempts - 1
            /\ c.fetched = "receipt" => c.queries >= 1 /\ c.sleeps = c.queries - 1

\* C7 witness: a retryGetReceipt call returned null.
C7_Witness ==
    /\ module = "transaction"
    /\ \E c \in AllChecks : c.pc = "done" /\ c.fetched = "null"

\* C8: called with an empty list, waitForAllConfirmations has returned an
\* empty result at once: no round, no endpoint call, no rotator call, no sleep.
C8_EmptyReturnsAtOnce ==
    (wfaPc # "off" /\ handed = <<>>) =>
        /\ wfaPc = "returned"
        /\ confirmedReceipts = <<>>
        /\ wfaTrace = NoTrace
        /\ \A c \in AllChecks : c.pc = "idle"

\* C8 witness: a batch without operations went through the tracker.
C8_Witness == batch >= 1 /\ wfaPc = "returned" /\ handed = <<>>

C10_Kept ==
    module = "transaction" =>
        \A h \in Hashes :
            checks["cur"][h].log = "Invalid" =>
                h \in DOMAIN confirmationStates /\ EntriesFor(h) = {}
C10_Step ==
    (module = "transaction" /\ batch' = batch) =>
        /\ wfaPc # "off" =>
              \A h \in (DOMAIN confirmationStates) \ (DOMAIN confirmationStates') :
                  \E i \in DOMAIN confirmedReceipts' \ DOMAIN confirmedReceipts :
                      confirmedReceipts'[i].receipt.transactionHash = h
        /\ (wfaPc # "round" /\ wfaPc' = "round") =>
              \A h \in DOMAIN confirmationStates' : checks'["cur"][h].pc = "receipt"
C10_InvalidMainReceiptStaysPending == []C10_Kept /\ [][C10_Step]_vars

\* C10 witness: the depth was reached and the authoritative receipt was
\* not usable.
C10_Witness ==
    /\ module = "transaction"
    /\ \E h \in Hashes : checks["cur"][h].log = "Invalid"

\* C11: against a chain whose head grows by one block per round and whose
\* endpoints always answer with well-formed receipts, a transaction included
\* in block b is emitted only in a round whose head h has h - b + 1 >=
\* REQUIRED_CONFIRMATIONS, and no round that observed such a head ends with
\* the transaction still pending; if the head was b at the call, no
\* transaction is emitted before round REQUIRED_CONFIRMATIONS and none is
\* pending once that round is over.
C11_Needed(h) == env.block[h] + REQUIRED_CONFIRMATIONS - 1
C11_Rounds == env.head - env.start + 1
C11_RoundOver == wfaPc \in {"sleep", "returned"}
C11_ConfirmedInFirstDeepRound ==
    (env.mode = "chain" /\ wfaPc # "off") =>
        \A h \in HashesOf(handed) :
            /\ EntriesFor(h) # {} => env.head >= C11_Needed(h)
            /\ (h \in DOMAIN confirmationStates /\ C11_RoundOver)
                  => env.head < C11_Needed(h)
            /\ env.block[h] = env.start =>
                  /\ EntriesFor(h) # {} => C11_Rounds >= REQUIRED_CONFIRMATIONS
                  /\ (C11_Rounds = REQUIRED_CONFIRMATIONS /\ C11_RoundOver)
                        => EntriesFor(h) # {}
                  /\ C11_Rounds > REQUIRED_CONFIRMATIONS => EntriesFor(h) # {}

\* C11 witness: the head was the inclusion block of every tracked transaction
\* at the call, and the tracker returned in round REQUIRED_CONFIRMATIONS.
C11_Witness ==
    /\ env.mode = "chain"
    /\ wfaPc = "returned"
    /\ Len(handed) = 2
    /\ \A h \in HashesOf(handed) : env.block[h] = env.start
    /\ C11_Rounds = REQUIRED_CONFIRMATIONS

\* C12: when every operation of a batch has returned a transaction,
\* executeTransactions does not reject, the list handed to the tracker holds
\* exactly one entry per operation with that operation's wallet index, and a
\* batch that returned has every one of them among the confirmed receipts.
C12_AllSucceeded ==
    /\ etPc \notin {"idle", "submit"}
    /\ \A w \in Wallets : ops[w].pc \in {"none", "done"}
C12_AllSucceedThenBatchSucceeds ==
    C12_AllSucceeded =>
        /\ etPc # "rejected"
        /\ wfaPc # "off"
        /\ \A w \in Wallets :
              Cardinality({i \in DOMAIN handed : handed[i].walletIndex = w})
                  = IF ops[w].pc = "done" THEN 1 ELSE 0
        /\ \A i, j \in DOMAIN handed : i # j => handed[i].hash # handed[j].hash
        /\ etPc = "returned" =>
              \A i \in DOMAIN handed :
                  \E k \in DOMAIN confirmedReceipts :
                      /\ confirmedReceipts[k].receipt.transactionHash = handed[i].hash
                      /\ confirmedReceipts[k].walletIndex = handed[i].walletIndex

\* C13: the attempt loop of a wallet is moved only by its own operation()
\* calls and delays, whatever happened to the loops of the other wallets and
\* to the batch: it ends only by a returned transaction or by the failure of
\* its own attempt MAX_RETRIES, and while it has not ended its next step can
\* be taken.
C13_OwnStep(w) ==
    \/ ops'[w] = ops[w]
    \/ ops[w].pc = "call" /\ ops'[w].pc = "done"
    \/ ops[w].pc = "call" /\ ops'[w].pc = "sleep" /\ ops[w].attempt < MAX_RETRIES
    \/ ops[w].pc = "call" /\ ops'[w].pc = "failed" /\ ops[w].attempt = MAX_RETRIES
    \/ ops[w].pc = "sleep" /\ ops'[w].pc = "call" /\ ops'[w].attempt = ops[w].attempt + 1
C13_Step ==
    batch' = batch =>
        /\ \A w \in Wallets : C13_OwnStep(w)
        /\ \A v, w \in Wallets : (ops'[v] # ops[v] /\ ops'[w] # ops[w]) => v = w
C13_CanGoOn ==
    \A w \in Wallets :
        /\ ops[w].pc = "call" => ENABLED OperationResolves(w) /\ ENABLED OperationFails(w)
        /\ ops[w].pc = "sleep" => ENABLED RetryDelayElapsed(w)
C13_SiblingLoopsIndependent == []C13_CanGoOn /\ [][C13_Step]_vars

\* C13 witness: in a batch of two operations both wallets exhausted their
\* retries, the second one after executeTransactions had been rejected.
C13_Witness ==
    /\ etPc = "rejected"
    /\ \A w \in Wallets : ops[w].pc = "failed" /\ ops[w].calls = MAX_RETRIES

\* C14: getNextPublicProvider always returns an index of publicProviders;
\* a call made with currentTime - lastProviderChangeTime at most
\* PROVIDER_SWITCH_INTERVAL leaves the index and the change time alone, a
\* call made later advances the index by one modulo the pool size and sets
\* the change time; successive returned indexes are equal or follow each
\* other cyclically, and a call is never refused.
C14_InRange ==
    /\ currentProviderIndex \in 0 .. (NumProviders - 1)
    /\ \A i \in DOMAIN returned : returned[i] \in 0 .. (NumProviders - 1)
    /\ \A i \in DOMAIN returned :
          i > 1 => returned[i] \in {returned[i - 1], (returned[i - 1] + 1) % NumProviders}
    /\ lastProviderChangeTime <= now
    /\ Len(returned) < MaxCalls => ENABLED CallGetNextPublicProvider
C14_Call ==
    returned' # returned =>
        /\ returned' = Append(returned, currentProviderIndex')
        /\ IF now - lastProviderChangeTime > PROVIDER_SWITCH_INTERVAL
           THEN /\ currentProviderIndex' = (currentProviderIndex + 1) % NumProviders
                /\ lastProviderChangeTime' = now
           ELSE /\ currentProviderIndex' = currentProviderIndex
                /\ lastProviderChangeTime' = lastProviderChangeTime
C14_RotatorCycles == []C14_InRange /\ [][C14_Call]_vars

\* C14 witness: the rotator returned the last endpoint, was called again in
\* the same window, and wrapped around to the first endpoint.
C14_Witness ==
    \E i, j \in DOMAIN returned :
        /\ i + 1 < j
        /\ returned[i] = NumProviders - 1
        /\ returned[i + 1] = NumProviders - 1
        /\ returned[j] = 0
        /\ returned[1] = 0

\* C15: no callback of a round is in flight while waitForAllConfirmations
\* sleeps between rounds, and none is in flight once the callbacks of a later
\* round have been started.
C15_RoundIsBarrier ==
    /\ wfaPc = "sleep" => \A s \in Slots, h \in Hashes : ~Running(checks[s][h])
    /\ \A h \in Hashes : ~Running(checks["old"][h])

\* C16: a transaction that has been emitted is not in the pending map and no
\* check of it is in flight; within a call of waitForAllConfirmations no
\* hash is added to the pending map and the emitted entries are kept as they
\* are.
C16_Emitted == {h \in Hashes : EntriesFor(h) # {}}
C16_Absorbed ==
    \A h \in C16_Emitted :
        /\ h \notin DOMAIN confirmationStates
        /\ \A s \in Slots : ~Running(checks[s][h])
C16_Step ==
    (batch' = batch /\ wfaPc # "off") =>
        /\ DOMAIN confirmationStates' \subseteq DOMAIN confirmationStates
        /\ Len(confirmedReceipts') >= Len(confirmedReceipts)
        /\ \A i \in DOMAIN confirmedReceipts : confirmedReceipts'[i] = confirmedReceipts[i]
C16_ConfirmedIsAbsorbing == []C16_Absorbed /\ [][C16_Step]_vars

\* C17: in transaction.js every emitted receipt was fetched from the
\* authoritative provider and every fee added to the ledger is the fee of
\* such a receipt; a transaction leaves the pending map, and a receipt is
\* emitted, only in the step in which the authoritative fetch of its check
\* returns, never in a step of the candidate fetch or of the head read.
C17_FromProvider ==
    module = "transaction" =>
        /\ \A i \in DOMAIN confirmedReceipts :
              confirmedReceipts[i].receipt.endpoint = "provider"
        /\ \A i \in DOMAIN accounted :
              \E k \in DOMAIN confirmedReceipts :
                  LET r == confirmedReceipts[k].receipt
                  IN /\ r.endpoint = "provider"
                     /\ r.transactionHash = accounted[i].hash
                     /\ accounted[i].fee = r.gasUsed * r.effectiveGasPrice
C17_Step ==
    (module = "transaction" /\ batch' = batch /\ wfaPc # "off") =>
        /\ \A h \in Hashes :
              (h \in DOMAIN confirmationStates /\ h \notin DOMAIN confirmationStates')
                  => \E s \in Slots :
                        /\ checks[s][h].pc \in {"mainReceipt", "mainSleep"}
                        /\ checks'[s][h].fetched = "receipt"
        /\ confirmedReceipts' # confirmedReceipts
              => \E s \in Slots, h \in Hashes :
                    /\ checks[s][h].pc = "mainReceipt"
                    /\ checks'[s][h].log = "Confirmed"
        /\ walletFees' # walletFees => etPc = "account" /\ accounted' # <<>>
C17_AuthoritativeReceiptOnly == []C17_FromProvider /\ [][C17_Step]_vars

\* C17 witness: a batch of transaction.js returned after adding to the ledger
\* the fees of two receipts fetched from the provider, whose checks had read
\* the candidate receipts from a rotated endpoint.
C17_Witness ==
    /\ module = "transaction"
    /\ etPc = "returned"
    /\ Len(accounted) = 2
    /\ currentProviderIndex = 1
    /\ \A i \in DOMAIN confirmedReceipts :
          confirmedReceipts[i].receipt.endpoint = "provider"

\* C18: the transactions list holds exactly one entry for a wallet whose
\* operation() call returned a transaction and none for any other wallet;
\* once the call has returned, the wallet's attempt loop takes no further
\* step in the batch, and an entry is added only by a step in which an
\* operation() call returns.
C18_EntriesOf(w) == {i \in DOMAIN transactions : transactions[i].walletIndex = w}
C18_OneEntry ==
    \A w \in Wallets :
        Cardinality(C18_EntriesOf(w)) = IF ops[w].pc = "done" THEN 1 ELSE 0
C18_Step ==
    batch' = batch =>
        /\ \A w \in Wallets : ops[w].pc = "done" => ops'[w] = ops[w]
        /\ transactions' # transactions =>
              \E w \in Wallets :
                  /\ ops[w].pc = "call"
                  /\ ops'[w].pc = "done"
                  /\ Len(transactions') = Len(transactions) + 1
                  /\ transactions'[Len(transactions')].walletIndex = w
                  /\ \A i \in DOMAIN transactions : transactions'[i] = transactions[i]
C18_NoSecondSubmission == []C18_OneEntry /\ [][C18_Step]_vars

\* C18 witness: one wallet's operation has returned a transaction while the
\* other wallet is at its last attempt, and a transaction was recorded.
C18_Witness ==
    \E v, w \in Wallets :
        /\ ops[v].pc = "done"
        /\ ops[w].pc = "call"
        /\ ops[w].attempt = MAX_RETRIES
        /\ Len(transactions) = 1

\* C19: every wallet's walletFees entry is the sum of the fees of all updates
\* made for the wallet so far, by the batches run one after the other and by
\* an executeTransactions call whose accounting runs between two
\* continuations of a batch; each update's fee is gasUsed * effectiveGasPrice
\* of the accounted receipt.
C19_NoLostUpdate ==
    /\ \A w \in DOMAIN walletFees : walletFees[w] = ledgerTotal[w]
    /\ \A w \in Wallets \ DOMAIN walletFees : ledgerTotal[w] = 0
    /\ \A i \in DOMAIN accounted :
          \E k \in DOMAIN confirmedReceipts :
              /\ confirmedReceipts[k].walletIndex = accounted[i].walletIndex
              /\ accounted[i].fee = confirmedReceipts[k].receipt.gasUsed
                                       * confirmedReceipts[k].receipt.effectiveGasPrice

\* C19 witness: two transactions of one batch were confirmed and accounted,
\* the other call accounted a receipt of one of the two wallets while the
\* batch was awaiting its tracker, and that wallet's entry holds both fees.
C19_Witness ==
    /\ otherBatch = <<>>
    /\ batch = 1
    /\ etPc = "returned"
    /\ Len(accounted) = 2
    /\ \E w \in Wallets : ledgerTotal[w] > SumFees(accounted, w, 1)
                           /\ SumFees(accounted, w, 1) > 0

\* C20: with endpoints that from some moment on always answer with a mined
\* receipt, a sufficient head height and a well-formed authoritative
\* receipt, a running waitForAllConfirmations eventually returns, and it has
\* then resolved every transaction it was called with; it never returns
\* while a transaction is pending, and a transaction leaves the pending map
\* only through a check that holds a receipt with a block number.
C20_Running == wfaPc \in {"round", "sleep"}
C20_Resolved ==
    wfaPc = "returned" =>
        /\ DOMAIN confirmationStates = {}
        /\ \A h \in HashesOf(handed) : EntriesFor(h) # {}
C20_Step ==
    (batch' = batch /\ wfaPc # "off") =>
        \A h \in (DOMAIN confirmationStates) \ (DOMAIN confirmationStates') :
            \E s \in Slots : checks[s][h].receipt.blockNumber # Absent
C20_EventuallyReturns ==
    /\ C20_Running ~> (wfaPc = "returned")
    /\ []C20_Resolved
    /\ [][C20_Step]_vars

\* C20 witness: the tracker returned two transactions after endpoint calls
\* had failed and the endpoints had recovered.
C20_Witness ==
    /\ env.mode = "good"
    /\ wfaPc = "returned"
    /\ Len(handed) = 2
    /\ wfaTrace.error

====
